---- MODULE Spec2Model ----
(***************************************************************************)
(* MDChef: one pass over a trajectory, several analyses (recipes), one     *)
(* checkpoint file per recipe.  Model of main.py (menu, recipe,            *)
(* restaurant), trajCheckpoint.py (checkpoint_frame, checkpoint_write)     *)
(* and the row-appending hook of recipes.py (rmsd_vs_time.loopcode).       *)
(*                                                                         *)
(* A "run" is one process: restaurant(...), recipes registered with        *)
(* menu.add, then serve().  The disk (data files, checkpoint files)        *)
(* survives from one run to the next; objects do not.  Every run reads    *)
(* the same trajectory, which has at least one frame (MDAnalysis does not  *)
(* open a trajectory file without frames); check_cases itself takes any    *)
(* nframes and is also checked as a function of its argument.              *)
(***************************************************************************)
EXTENDS Integers, Sequences, FiniteSets, TLC

\* ---------------------------------------------------------------- bounds
NumTasks == 2
MaxFrames == 2
MaxRuns == 2
LongFrames == 11

Tasks == 1..NumTasks

\* the (folder, base_filename, name) a recipe can be built from: as many as
\* there are names on the menu
Stems == 1..NumTasks

\* Python's None.  Python 2 orders None below every integer; frame numbers
\* and beginning frames are >= 0, so -1 keeps that ordering.
None == -1

VARIABLES
    nframes,      \* restaurant.nframes = len(u.trajectory)
    e,            \* restaurant.e, end frame override (None by default)
    b,            \* restaurant.b, set by serve() from min_beg_frame
    d,            \* menu.d: names of the recipes on the menu
    bf,           \* recipe.bf per recipe
    on,           \* recipe.on per recipe
    stem,         \* per recipe, the (folder, base_filename, name) it was
                  \*   built from; its two file paths are made of it
    pc,           \* where the run is
    pos,          \* ts.frame of the frame the scan is at
    cur,          \* recipe the loop over the menu is at
    dataExists,   \* disk: stems whose data file exists
    data,         \* disk: rows of each data file (the frame of each row)
    cptExists,    \* disk: stems whose .cpt file exists
    cptText,      \* disk: text of each .cpt file, a sequence of digits
    log,          \* history: calls made by serve() in this run
    d0,           \* history: the menu when serve() was called
    last,         \* history: per recipe, the last frame whose hook returned
                  \*   and whose checkpoint write completed (None: no frame)
    prev,         \* history: how the previous run ended
    runs          \* number of runs and of repeated serve() calls so far

vars == <<nframes, e, b, d, bf, on, stem, pc, pos, cur, dataExists, data,
          cptExists, cptText, log, d0, last, prev, runs>>

disk == <<dataExists, data, cptExists, cptText>>

\* ------------------------------------------------------- pure functions
Min2(x, y) == IF x <= y THEN x ELSE y

\* '{0:}'.format(frame): the decimal digits of frame
RECURSIVE Format(_)
Format(n) == IF n < 10 THEN <<n>> ELSE Format(n \div 10) \o <<n % 10>>

\* int(text) of a non-empty line of digits
RECURSIVE ParseInt(_)
ParseInt(s) ==
    IF Len(s) = 1 THEN s[1]
    ELSE 10 * ParseInt(SubSeq(s, 1, Len(s) - 1)) + s[Len(s)]

\* recipe.data and recipe.chkpt of a recipe built from stem s; every recipe
\* of recipes.py writes the data type "dat"
data_path(s) == <<s, "dat">>

chkpt_path(s) == <<"checkpoints", s, "cpt">>

\* checkpoint_frame without the "+ 1" of line 45
checkpoint_frame_same(t) ==
    IF t \in dataExists
    THEN IF t \notin cptExists \/ cptText[t] = <<>>
         THEN [err |-> TRUE, bf |-> None, ef |-> None, fex |-> TRUE]
         ELSE [err |-> FALSE, bf |-> ParseInt(cptText[t]),
               ef |-> None, fex |-> TRUE]
    ELSE [err |-> FALSE, bf |-> None, ef |-> None, fex |-> FALSE]

\* checkpoint_frame that never reads the .cpt file
checkpoint_frame_fresh(t) ==
    [err |-> FALSE, bf |-> None, ef |-> None, fex |-> t \in dataExists]

\* checkpoint_frame: (bf, ef, fex), or an uncaught exception when the data
\* file exists and the .cpt file is missing (IOError) or empty (IndexError)
checkpoint_frame(t) ==
    IF t \in dataExists
    THEN IF t \notin cptExists \/ cptText[t] = <<>>
         THEN [err |-> TRUE, bf |-> None, ef |-> None, fex |-> TRUE]
         ELSE [err |-> FALSE, bf |-> ParseInt(cptText[t]) + 1,
               ef |-> None, fex |-> TRUE]
    ELSE [err |-> FALSE, bf |-> None, ef |-> None, fex |-> FALSE]

\* checkpoint_frame's stop test: bf >= ef and (bf != None and ef != None)
stop_signalled(r) == r.bf >= r.ef /\ (r.bf # None /\ r.ef # None)

\* check_cases that compares with > instead of >=
del_later_strict(dd, f, n) == {name \in dd : f[name] > n}

\* check_cases, first part: the names left after the removals
del_later(dd, f, n) == {name \in dd : f[name] >= n}

check_cases(dd, f, n) == dd \ del_later(dd, f, n)

\* check_cases without its sys.exit
exit_signalled_never(dd) == FALSE

\* check_cases, second part: sys.exit when nothing is left
exit_signalled(dd) == dd = {}

\* iteration over the menu: a fixed order of the names
first_task(dd) == CHOOSE t \in dd : \A u \in dd : t <= u

next_task(dd, t) ==
    IF {u \in dd : u > t} = {} THEN None
    ELSE CHOOSE u \in dd : u > t /\ \A w \in dd : w > t => u <= w

\* min_beg_frame that returns bf_list[0]
min_beg_frame_first(dd, f) == f[first_task(dd)]

\* min_beg_frame on a non-empty menu: min(bf_list)
min_beg_frame(dd, f) ==
    CHOOSE m \in {f[name] : name \in dd} : \A name \in dd : m <= f[name]

\* frame = ts.frame, without the None of frame 0
frame_of_raw(tsframe) == tsframe

\* frame = ts.frame if ts.frame > 0 else None
frame_of(tsframe) == IF tsframe > 0 THEN tsframe ELSE None

\* a test that turns a recipe on before its beginning frame
turn_on_early(a_bf, frame) == a_bf >= frame

\* if a.bf == frame: a.on = True
turn_on(a_bf, frame) == a_bf = frame

\* u.trajectory[b:e]: first frame and one past the last frame of the slice
slice_start(lo, n) == IF lo = None THEN 0 ELSE Min2(lo, n)

slice_stop(hi, n) == IF hi = None THEN n ELSE Min2(hi, n)

Ev(k, t, p) == [k |-> k, t |-> t, p |-> p]

\* how a run ended: what the next run's claims refer to
EndOfRun ==
    [pc |-> pc, e |-> e, d0 |-> d0, d |-> d, log |-> log,
     dataExists |-> dataExists, data |-> data,
     cptExists |-> cptExists, cptText |-> cptText]

NoPrev ==
    [pc |-> "none", e |-> None, d0 |-> {}, d |-> {}, log |-> <<>>,
     dataExists |-> {}, data |-> [s \in Stems |-> <<>>],
     cptExists |-> {}, cptText |-> [s \in Stems |-> <<>>]]

\* ----------------------------------------------------------------- Init
\* restaurant.__init__ of the first run, on an empty folder
Init ==
    /\ nframes \in 1..MaxFrames
    /\ e = None
    /\ b = None
    /\ d = {}
    /\ bf = [t \in Tasks |-> None]
    /\ on = [t \in Tasks |-> FALSE]
    /\ stem = [t \in Tasks |-> t]
    /\ pc = "idle"
    /\ pos = 0
    /\ cur = None
    /\ dataExists = {}
    /\ data = [s \in Stems |-> <<>>]
    /\ cptExists = {}
    /\ cptText = [s \in Stems |-> <<>>]
    /\ log = <<>>
    /\ d0 = {}
    /\ last = [t \in Tasks |-> None]
    /\ prev = NoPrev
    /\ runs = 1

\* -------------------------------------------------------------- actions
\* recipe.__init__(folder, base_filename, name, ...) with stem s (cpt_load
\* reads the files of s), followed by menu.add(t, recipe)
RegisterAs(t, s) ==
    /\ pc = "idle"
    /\ t \notin d
    /\ LET r == checkpoint_frame(s) IN
       IF r.err \/ stop_signalled(r)
       THEN /\ pc' = "ioerror"
            /\ log' = Append(log, Ev("ioerror", t, None))
            /\ UNCHANGED <<d, bf, on, stem>>
       ELSE /\ bf' = [bf EXCEPT ![t] = r.bf]
            /\ on' = [on EXCEPT ![t] = FALSE]
            /\ stem' = [stem EXCEPT ![t] = s]
            /\ d' = d \cup {t}
            /\ UNCHANGED <<pc, log>>
    /\ UNCHANGED <<nframes, e, b, pos, cur, disk, d0, last, prev, runs>>

\* the documented use: the recipe is put on the menu under the name it was
\* built with, one recipe per name
Register(t) == RegisterAs(t, t)

\* menu.remove(name)
Remove(t) ==
    /\ pc = "idle"
    /\ t \in d
    /\ d' = d \ {t}
    /\ bf' = [bf EXCEPT ![t] = None]
    /\ on' = [on EXCEPT ![t] = FALSE]
    /\ stem' = [stem EXCEPT ![t] = t]
    /\ UNCHANGED <<nframes, e, b, pc, pos, cur, disk, log, d0, last, prev, runs>>

\* the caller sets restaurant.e before serve()
SetEnd(v) ==
    /\ pc = "idle"
    /\ e = None
    /\ e' = v
    /\ UNCHANGED <<nframes, b, d, bf, on, stem, pc, pos, cur, disk, log, d0,
                   last, prev, runs>>

\* serve(), up to the first frame of the loop: check_cases, min_beg_frame,
\* the slice of the trajectory
serve_entry ==
    /\ d0' = d
    /\ LET dd == check_cases(d, bf, nframes) IN
       /\ d' = dd
       /\ IF exit_signalled(dd)
          THEN /\ pc' = "exited"
               /\ UNCHANGED <<b, pos, cur, log>>
          ELSE IF dd = {}
          THEN \* min_beg_frame returns a string; unpacking it raises
               /\ pc' = "valueerror"
               /\ UNCHANGED <<b, pos, cur, log>>
          ELSE LET m == min_beg_frame(dd, bf)
                   lo == slice_start(m, nframes)
                   hi == slice_stop(e, nframes)
               IN /\ b' = m
                  /\ cur' = first_task(dd)
                  /\ IF lo < hi
                     THEN /\ pc' = "scan"
                          /\ pos' = lo
                          /\ log' = <<Ev("min", None, m),
                                      Ev("visit", None, lo)>>
                     ELSE /\ pc' = "post"
                          /\ pos' = pos
                          /\ log' = <<Ev("min", None, m)>>

\* serve() called on a coordinator whose recipes were just registered
ServeBegin ==
    /\ pc = "idle"
    /\ serve_entry
    /\ UNCHANGED <<nframes, e, bf, on, stem, disk, last, prev, runs>>

\* serve() called again when a pass is done, on the same coordinator and
\* the same recipe objects: bf and on are what the first pass left
ServeAgain ==
    /\ pc = "done"
    /\ runs < MaxRuns
    /\ runs' = runs + 1
    /\ prev' = [EndOfRun EXCEPT !.pc = "served"]
    /\ serve_entry
    /\ UNCHANGED <<nframes, e, bf, on, stem, disk, last>>

\* the loops of serve() move on after recipe cur at frame pos; lg is the
\* log so far
Advance(lg) ==
    LET nxt == next_task(d, cur) IN
    IF nxt # None
    THEN /\ cur' = nxt
         /\ pos' = pos
         /\ pc' = "scan"
         /\ log' = lg
    ELSE /\ cur' = first_task(d)
         /\ IF pos + 1 < slice_stop(e, nframes)
            THEN /\ pos' = pos + 1
                 /\ pc' = "scan"
                 /\ log' = Append(lg, Ev("visit", None, pos + 1))
            ELSE /\ pos' = pos
                 /\ pc' = "post"
                 /\ log' = lg

\* a loop that drops from the menu the recipe it does not run
Skip_evict ==
    /\ pc = "scan"
    /\ ~ (on[cur] \/ turn_on(bf[cur], frame_of(pos)))
    /\ d' = d \ {cur}
    /\ Advance(log)
    /\ UNCHANGED <<nframes, e, b, bf, on, stem, disk, d0, last, prev, runs>>

\* a recipe that is off and is not turned on at this frame
Skip ==
    /\ pc = "scan"
    /\ ~ (on[cur] \/ turn_on(bf[cur], frame_of(pos)))
    /\ Advance(log)
    /\ UNCHANGED <<nframes, e, b, d, bf, on, stem, disk, d0, last, prev, runs>>

\* runinloop, first statement: func(frame, time) returns, having appended
\* its row to the data file
HookReturn ==
    /\ pc = "scan"
    /\ on[cur] \/ turn_on(bf[cur], frame_of(pos))
    /\ on' = [on EXCEPT ![cur] = TRUE]
    /\ dataExists' = dataExists \cup {stem[cur]}
    /\ data' = [data EXCEPT ![stem[cur]] = Append(@, pos)]
    /\ log' = Append(log, Ev("hook", cur, pos))
    /\ pc' = "commit"
    /\ UNCHANGED <<nframes, e, b, d, bf, stem, pos, cur, cptExists, cptText,
                   d0, last, prev, runs>>

\* runinloop, first statement: func(frame, time) raises, before it opened
\* its data file (wrote = FALSE) or after it opened it for append and wrote
\* its row (wrote = TRUE); nothing catches it
HookRaise(wrote) ==
    /\ pc = "scan"
    /\ on[cur] \/ turn_on(bf[cur], frame_of(pos))
    /\ on' = [on EXCEPT ![cur] = TRUE]
    /\ IF wrote
       THEN /\ dataExists' = dataExists \cup {stem[cur]}
            /\ data' = [data EXCEPT ![stem[cur]] = Append(@, pos)]
       ELSE UNCHANGED <<dataExists, data>>
    /\ log' = Append(log, Ev("raise", cur, pos))
    /\ pc' = "aborted"
    /\ UNCHANGED <<nframes, e, b, d, bf, stem, pos, cur, cptExists, cptText,
                   d0, last, prev, runs>>

\* checkpoint_write that writes the next frame
checkpoint_write_next(frame, t) ==
    /\ cptExists' = cptExists \cup {t}
    /\ cptText' = [cptText EXCEPT ![t] = Format(frame + 1)]

\* checkpoint_write(frame, cpt_name): the file holds the digits of frame
checkpoint_write(frame, t) ==
    /\ cptExists' = cptExists \cup {t}
    /\ cptText' = [cptText EXCEPT ![t] = Format(frame)]

\* runinloop without cpt_out
Commit_skip ==
    /\ pc = "commit"
    /\ Advance(log)
    /\ UNCHANGED <<nframes, e, b, d, bf, on, stem, disk, d0, last, prev, runs>>

\* runinloop, second statement: cpt_out(frame); then the loops move on
Commit ==
    /\ pc = "commit"
    /\ checkpoint_write(pos, stem[cur])
    /\ last' = [last EXCEPT ![cur] = pos]
    /\ Advance(Append(log, Ev("cpt", cur, pos)))
    /\ UNCHANGED <<nframes, e, b, d, bf, on, stem, dataExists, data, d0,
                   prev, runs>>

\* post processing that stops after the first recipe
Finalize_first ==
    /\ pc = "post"
    /\ log' = Append(log, Ev("post", cur, None))
    /\ cur' = None
    /\ pc' = "done"
    /\ UNCHANGED <<nframes, e, b, d, bf, on, stem, pos, disk, d0, last, prev,
                   runs>>

\* post processing: runafterloop(postloopcode) of recipe cur
Finalize ==
    /\ pc = "post"
    /\ log' = Append(log, Ev("post", cur, None))
    /\ LET nxt == next_task(d, cur) IN
       IF nxt # None
       THEN cur' = nxt /\ pc' = pc
       ELSE cur' = None /\ pc' = "done"
    /\ UNCHANGED <<nframes, e, b, d, bf, on, stem, pos, disk, d0, last, prev,
                   runs>>

Ended ==
    pc \in {"done", "aborted", "exited", "ioerror", "valueerror", "crashed"}

\* the process has ended; the script is started again on the same folder
\* and the same trajectory: restaurant.__init__
NewRun ==
    /\ Ended
    /\ runs < MaxRuns
    /\ runs' = runs + 1
    /\ prev' = EndOfRun
    /\ nframes' = nframes
    /\ e' = None
    /\ b' = None
    /\ d' = {}
    /\ bf' = [t \in Tasks |-> None]
    /\ on' = [t \in Tasks |-> FALSE]
    /\ stem' = [t \in Tasks |-> t]
    /\ pc' = "idle"
    /\ pos' = 0
    /\ cur' = None
    /\ log' = <<>>
    /\ d0' = {}
    /\ UNCHANGED <<disk, last>>

Next ==
    \/ \E t \in Tasks : Register(t)
    \/ \E t \in Tasks : Remove(t)
    \/ ServeBegin
    \/ Skip
    \/ HookReturn
    \/ \E wrote \in BOOLEAN : HookRaise(wrote)
    \/ Commit
    \/ Finalize
    \/ NewRun

Spec == Init /\ [][Next]_vars

\* menu.check_cases(nframes) called on any menu with any nframes >= 0: the
\* beginning frames are None or a checkpointed frame + 1
InitCheck ==
    /\ nframes \in 0..MaxFrames
    /\ e = None
    /\ b = None
    /\ d \in SUBSET Tasks
    /\ bf \in [Tasks -> {None} \cup 1..(MaxFrames + 1)]
    /\ on = [t \in Tasks |-> FALSE]
    /\ stem = [t \in Tasks |-> t]
    /\ pc = "idle"
    /\ pos = 0
    /\ cur = None
    /\ dataExists = {}
    /\ data = [s \in Stems |-> <<>>]
    /\ cptExists = {}
    /\ cptText = [s \in Stems |-> <<>>]
    /\ log = <<>>
    /\ d0 = {}
    /\ last = [t \in Tasks |-> None]
    /\ prev = NoPrev
    /\ runs = 1

CheckCasesCall ==
    /\ pc = "idle"
    /\ d0' = d
    /\ d' = check_cases(d, bf, nframes)
    /\ pc' = IF exit_signalled(d') THEN "exited" ELSE "checked"
    /\ UNCHANGED <<nframes, e, b, bf, on, stem, pos, cur, disk, log, last,
                   prev, runs>>

SpecCheckCases == InitCheck /\ [][CheckCasesCall]_vars

\* the same, with callers that set the end frame
NextEnd == Next \/ \E v \in 0..MaxFrames : SetEnd(v)

SpecEnd == Init /\ [][NextEnd]_vars

\* callers that put a recipe on the menu under any name: the name given to
\* menu.add and the arguments given to the recipe are unrelated
NextPaths ==
    \/ \E t \in Tasks, s \in Stems : RegisterAs(t, s)
    \/ \E t \in Tasks : Remove(t)
    \/ ServeBegin
    \/ Skip
    \/ HookReturn
    \/ \E wrote \in BOOLEAN : HookRaise(wrote)
    \/ Commit
    \/ Finalize
    \/ NewRun

SpecPaths == Init /\ [][NextPaths]_vars

\* callers that call serve() again when it has returned
NextAgain == Next \/ ServeAgain

SpecAgain == Init /\ [][NextAgain]_vars

\* serve() called on any menu: the bf of a recipe is None or int(text) + 1
\* for the integer its .cpt file held when it was built, -1 and up
InitServe ==
    /\ nframes \in 1..MaxFrames
    /\ e = None
    /\ b = None
    /\ d \in SUBSET Tasks
    /\ bf \in [Tasks -> {None} \cup 0..MaxFrames]
    /\ on = [t \in Tasks |-> FALSE]
    /\ stem = [t \in Tasks |-> t]
    /\ pc = "idle"
    /\ pos = 0
    /\ cur = None
    /\ dataExists = {}
    /\ data = [s \in Stems |-> <<>>]
    /\ cptExists = {}
    /\ cptText = [s \in Stems |-> <<>>]
    /\ log = <<>>
    /\ d0 = {}
    /\ last = [t \in Tasks |-> None]
    /\ prev = NoPrev
    /\ runs = 1

NextServe ==
    \/ ServeBegin
    \/ Skip
    \/ HookReturn
    \/ \E wrote \in BOOLEAN : HookRaise(wrote)
    \/ Commit
    \/ Finalize

SpecServe == InitServe /\ [][NextServe]_vars

\* a trajectory long enough for frame numbers of two digits
InitLong ==
    /\ nframes = LongFrames
    /\ e = None
    /\ b = None
    /\ d = {}
    /\ bf = [t \in Tasks |-> None]
    /\ on = [t \in Tasks |-> FALSE]
    /\ stem = [t \in Tasks |-> t]
    /\ pc = "idle"
    /\ pos = 0
    /\ cur = None
    /\ dataExists = {}
    /\ data = [s \in Stems |-> <<>>]
    /\ cptExists = {}
    /\ cptText = [s \in Stems |-> <<>>]
    /\ log = <<>>
    /\ d0 = {}
    /\ last = [t \in Tasks |-> None]
    /\ prev = NoPrev
    /\ runs = 1

\* the process dies inside checkpoint_write: open(cpt_name, 'w') has
\* truncated the file and only the first k digits of the frame reached it
CommitTorn(k) ==
    /\ pc = "commit"
    /\ k < Len(Format(pos))
    /\ cptExists' = cptExists \cup {stem[cur]}
    /\ cptText' = [cptText EXCEPT ![stem[cur]] = SubSeq(Format(pos), 1, k)]
    /\ log' = Append(log, Ev("torn", cur, pos))
    /\ pc' = "crashed"
    /\ UNCHANGED <<nframes, e, b, d, bf, on, stem, pos, cur, dataExists, data,
                   d0, last, prev, runs>>

NextCrash == Next \/ \E k \in 0..(Len(Format(LongFrames)) - 1) : CommitTorn(k)

SpecCrash == InitLong /\ [][NextCrash]_vars

\* ------------------------------------------------ reading the histories
\* a recipe's beginning frame, an unset one counted as 0
BeginOf(t) == IF bf[t] = None THEN 0 ELSE bf[t]

\* the number stored in a recipe's .cpt file, which exists
CptOf(text, t) == ParseInt(text[t])

Count(lg, ev) == Cardinality({i \in DOMAIN lg : lg[i] = ev})

IsVisit(x) == x.k = "visit"

\* the frames the scan of this run has visited, in the order of the visits
Visited == LET v == SelectSeq(log, IsVisit) IN [i \in 1..Len(v) |-> v[i].p]

VisitedSet == {Visited[i] : i \in 1..Len(Visited)}

\* the hook of recipe t was invoked (it returned or it raised) at frame p
Invoked(lg, t, p) ==
    \E i \in DOMAIN lg : lg[i].k \in {"hook", "raise"} /\ lg[i].t = t /\ lg[i].p = p

\* the frames at which the hook of recipe t returned, in the order of the calls
IsHookOf(t, x) == x.k = "hook" /\ x.t = t

HookFrames(t) ==
    LET IsMine(x) == IsHookOf(t, x)
        h == SelectSeq(log, IsMine)
    IN [i \in 1..Len(h) |-> h[i].p]

InPass == pc \in {"scan", "commit", "post", "done", "aborted"}

\* the loops of serve() have come to recipe t at frame p and have called
\* its hook there if it was on
Reached(t, p) ==
    /\ InPass
    /\ p \in VisitedSet
    /\ \/ pc \in {"post", "done"}
       \/ p < pos
       \/ p = pos /\ t < cur
       \/ p = pos /\ t = cur /\ pc \in {"commit", "aborted"}

\* the loops of serve() have finished with recipe t at frame p
Passed(t, p) ==
    /\ Reached(t, p)
    /\ ~ (p = pos /\ t = cur /\ pc \in {"commit", "aborted"})

Frames == 0..(nframes - 1)

\* ---------------------------------------------------------------- claims

\* C1 (resume correctness): if the .cpt file of a recipe holds P when a run
\* ends, done or aborted, then a recipe registered for the next run has
\* bf = P + 1, its registration does not fail, and in that run its hook is
\* not invoked at any frame <= P.
ResumeCorrect ==
    \A t \in prev.cptExists :
        LET P == CptOf(prev.cptText, t) IN
        /\ t \in d => bf[t] = P + 1
        /\ Count(log, Ev("ioerror", t, None)) = 0
        /\ \A p \in 0..P : ~ Invoked(log, t, p)

\* a second run has ended in which a recipe resumed from its checkpoint and
\* was processed further
ResumeWitness ==
    /\ pc = "done"
    /\ \E t \in d \cap prev.cptExists :
          /\ prev.pc = "aborted"
          /\ Invoked(log, t, CptOf(prev.cptText, t) + 1)

\* C2 (exactly once within a pass): for every frame the scan has finished
\* with and every recipe on at that frame, the hook returned exactly once
\* for that (frame, recipe) and exactly one checkpoint commit of that frame
\* for that recipe follows it at once, before any other hook or commit.
ExactlyOnce ==
    /\ \A t \in Tasks, p \in Frames :
          /\ Count(log, Ev("hook", t, p)) + Count(log, Ev("raise", t, p)) <= 1
          /\ Count(log, Ev("cpt", t, p)) <= 1
          /\ (t \in d /\ Passed(t, p) /\ BeginOf(t) <= p)
                => /\ Count(log, Ev("hook", t, p)) = 1
                   /\ Count(log, Ev("cpt", t, p)) = 1
    /\ \A i \in DOMAIN log :
          /\ log[i].k = "hook" =>
                IF i < Len(log)
                THEN log[i + 1] = Ev("cpt", log[i].t, log[i].p)
                ELSE pc = "commit" /\ cur = log[i].t /\ pos = log[i].p
          /\ log[i].k = "cpt" =>
                i > 1 /\ log[i - 1] = Ev("hook", log[i].t, log[i].p)

\* a pass has ended in which two recipes were processed at the same frame
ExactlyOnceWitness ==
    /\ pc = "done"
    /\ \E p \in Frames : \A t \in Tasks : Count(log, Ev("cpt", t, p)) = 1

\* C3 (activation timing): in a pass, a recipe with beginning frame K (0 if
\* unset) has no hook call at a visited frame < K, is on exactly from the
\* moment the loops reach it at frame K, and its hook is called at every
\* visited frame >= K the loops reach it at: its flag never goes back to
\* false.
ActivationTiming ==
    InPass =>
        \A t \in d :
            /\ \A p \in Frames : p < BeginOf(t) => ~ Invoked(log, t, p)
            /\ on[t] <=> Reached(t, BeginOf(t))
            /\ \A p \in Frames :
                  (p >= BeginOf(t) /\ Reached(t, p)) => Invoked(log, t, p)

\* a pass has ended in which a recipe resumed at frame K >= 1 while the scan
\* visited frames below K for another recipe
ActivationWitness ==
    /\ pc = "done"
    /\ \E t \in d :
          /\ bf[t] >= 1
          /\ on[t]
          /\ \E p \in VisitedSet : p < bf[t]

\* C4 (eviction correctness): once check_cases(nframes) is over, every
\* recipe left on the menu has a beginning frame (0 if unset) < nframes, and
\* the menu holds exactly the recipes it held before whose beginning frame
\* is < nframes.
EvictionCorrect ==
    pc \notin {"idle", "ioerror"} =>
        /\ \A t \in d : BeginOf(t) < nframes
        /\ d = {t \in d0 : BeginOf(t) < nframes}

\* the same for nframes >= 1
EvictionCorrectSomeFrame ==
    (pc \notin {"idle", "ioerror"} /\ nframes >= 1) =>
        /\ \A t \in d : BeginOf(t) < nframes
        /\ d = {t \in d0 : BeginOf(t) < nframes}

\* C5 (termination on an empty menu): when check_cases leaves the menu
\* empty, also when it was empty before, the run ends in sys.exit before
\* min_beg_frame is computed and before a frame is visited: no hook call, no
\* checkpoint write, no post processing call, nothing written to the disk.
TerminationOnEmpty ==
    /\ (pc \notin {"idle", "ioerror"} /\ d = {}) =>
          /\ pc = "exited"
          /\ log = <<>>
          /\ b = None
          /\ disk = <<prev.dataExists, prev.data, prev.cptExists, prev.cptText>>
    /\ pc = "exited" => d = {}

\* check_cases removed every recipe of a menu that was not empty
TerminationWitness ==
    /\ pc = "exited"
    /\ d0 # {}

\* C6 (idempotent rerun): after a run whose pass ended normally, a run with
\* the same end frame whose recipes are registered afresh, each a recipe of
\* the first run, calls no hook and leaves every data file and every .cpt
\* file as the first run left it.
IdempotentRerun ==
    (prev.pc = "done" /\ d0 \subseteq prev.d0 /\ e = prev.e) =>
        /\ \A t \in Tasks, p \in Frames : ~ Invoked(log, t, p)
        /\ cptExists = prev.cptExists
        /\ cptText = prev.cptText
        /\ dataExists = prev.dataExists
        /\ data = prev.data

\* a pass that processed frames ended normally, and the run after it, with
\* the same recipes, is over
IdempotentWitness ==
    /\ prev.pc = "done"
    /\ \E t \in Tasks, p \in Frames : Invoked(prev.log, t, p)
    /\ d0 = prev.d0
    /\ Ended

\* C7 (checkpoint record): a .cpt file that exists holds the frame of the
\* last unit whose hook returned and whose checkpoint write completed, and
\* there is no .cpt file before the first such unit; while the hook of a
\* frame has returned without its write, or has raised, the file does not
\* hold that frame.
CheckpointRecord ==
    /\ \A t \in Tasks :
          IF t \in cptExists
          THEN cptText[t] # <<>> /\ CptOf(cptText, t) = last[t]
          ELSE last[t] = None
    /\ pc \in {"commit", "aborted"} =>
          /\ Count(log, Ev("cpt", cur, pos)) = 0
          /\ cur \in cptExists => CptOf(cptText, cur) < pos

\* a hook raised after it appended its row, at a frame after one that was
\* committed
CheckpointRecordWitness ==
    /\ pc = "aborted"
    /\ cur \in cptExists
    /\ CptOf(cptText, cur) = pos - 1
    /\ data[cur] # <<>>
    /\ data[cur][Len(data[cur])] = pos

\* C8 (abort and safe rerun): when a hook raises at frame p the pass stops
\* there, frame p is not committed for that recipe, and in the next run the
\* registration of that recipe does not fail and gives it the beginning
\* frame p (0 if unset), whether or not the hook had appended its row.
AbortSafeRerun ==
    /\ pc = "aborted" =>
          /\ log[Len(log)] = Ev("raise", cur, pos)
          /\ Count(log, Ev("cpt", cur, pos)) = 0
    /\ prev.pc = "aborted" =>
          LET r == prev.log[Len(prev.log)] IN
          /\ Count(log, Ev("ioerror", r.t, None)) = 0
          /\ r.t \in d => BeginOf(r.t) = r.p

\* C9 (completed pass): with no end frame set, when serve() has completed,
\* the menu holds exactly the recipes whose beginning frame (0 if unset) was
\* < nframes, the hook of each returned for exactly the frames from its
\* beginning frame to nframes - 1, in increasing order, and its .cpt file
\* holds nframes - 1.
CompletedPassOf(t) ==
    /\ HookFrames(t) = [i \in 1..(nframes - BeginOf(t)) |-> BeginOf(t) + i - 1]
    /\ t \in cptExists
    /\ CptOf(cptText, t) = nframes - 1

CompletedPass ==
    (pc = "done" /\ e = None) =>
        /\ d = {t \in d0 : BeginOf(t) < nframes}
        /\ \A t \in d : CompletedPassOf(t)

\* a pass has ended normally for a recipe that started at frame 0 and a
\* recipe that resumed at a later frame
CompletedPassWitness ==
    /\ pc = "done"
    /\ e = None
    /\ \E t \in d, u \in d :
          /\ bf[t] = None
          /\ bf[u] >= 1
          /\ Len(HookFrames(t)) > Len(HookFrames(u))
          /\ Len(HookFrames(u)) >= 1

\* C10 (pass boundary and order): the scan visits frames in strictly
\* increasing order, none below the minimum beginning frame (0 if unset) of
\* the recipes left after check_cases; the first frame it visits is that
\* minimum, and with no end frame set it visits at least that frame.  A menu
\* with an unset and an integer beginning frame starts at frame 0.
MinBegin == CHOOSE m \in {BeginOf(t) : t \in d} : \A t \in d : m <= BeginOf(t)

PassBoundary ==
    InPass =>
        /\ \A i \in 1..(Len(Visited) - 1) : Visited[i] < Visited[i + 1]
        /\ \A i \in 1..Len(Visited) : Visited[i] >= MinBegin
        /\ Visited # <<>> => Visited[1] = MinBegin
        /\ (e = None /\ nframes >= 1) => Visited # <<>>
        /\ (\E t \in d : bf[t] = None) /\ Visited # <<>> => Visited[1] = 0

\* a pass over a menu with an unset and an integer beginning frame has ended
PassBoundaryWitness ==
    /\ pc = "done"
    /\ \E t \in d, u \in d : bf[t] = None /\ bf[u] >= 1
    /\ Len(Visited) >= 2

\* C11 (finalization): when the scan loop of a pass has ended normally,
\* runafterloop(postloopcode) is called exactly once for every recipe on the
\* menu, in the order of the menu, and every such call comes after the last
\* hook call and checkpoint write of the pass; a pass that did not end
\* normally makes no such call.  Every recipe that was on in the pass is
\* among them, and with no end frame set the recipes that were on are
\* exactly the recipes left after check_cases.
IsPost(x) == x.k = "post"

PostCalls == LET q == SelectSeq(log, IsPost) IN [i \in 1..Len(q) |-> q[i].t]

Finalization ==
    /\ \A i \in 1..(Len(log) - 1) :
          log[i].k = "post" => log[i + 1].k = "post"
    /\ \A i \in 1..(Len(PostCalls) - 1) : PostCalls[i] < PostCalls[i + 1]
    /\ \A i \in 1..Len(PostCalls) : PostCalls[i] \in d
    /\ PostCalls # <<>> => pc \in {"post", "done"}
    /\ pc = "done" =>
          /\ \A t \in d : Count(log, Ev("post", t, None)) = 1
          /\ \A t \in Tasks : on[t] => Count(log, Ev("post", t, None)) = 1
          /\ e = None => {t \in Tasks : on[t]} = d

\* a pass over two recipes has ended normally
FinalizationWitness ==
    /\ pc = "done"
    /\ Cardinality(d) >= 2
    /\ \E t \in d : Len(HookFrames(t)) >= 1

\* C12 (file exclusivity): two recipes held on the menu under different
\* names have different checkpoint paths and different data paths, and so
\* the checkpoint file of a recipe holds the frame that recipe's own last
\* cpt_out of the pass wrote.
LastCpt(t) ==
    LET q == SelectSeq(log, LAMBDA x : x.k = "cpt" /\ x.t = t)
    IN IF q = <<>> THEN None ELSE q[Len(q)].p

FileExclusive ==
    /\ \A t \in d, u \in d :
          t # u => /\ chkpt_path(stem[t]) # chkpt_path(stem[u])
                   /\ data_path(stem[t]) # data_path(stem[u])
    /\ \A t \in d :
          LastCpt(t) # None => CptOf(cptText, stem[t]) = LastCpt(t)

\* C13 (torn checkpoint): a recipe whose checkpoint write was cut short in
\* the previous run (the file is empty or holds a proper prefix of the
\* digits of the frame) cannot be loaded in the next run, and whenever a
\* recipe is loaded its bf is the last frame whose checkpoint write
\* completed, plus one (unset when there is none).
TornIn(lg, t) == \E i \in DOMAIN lg : lg[i].k = "torn" /\ lg[i].t = t

TornRejected ==
    pc = "idle" =>
       \A t \in d :
          /\ ~ TornIn(prev.log, t)
          /\ bf[t] = IF last[t] = None THEN None ELSE last[t] + 1

DoneTerminal ==
    prev.pc = "served" =>
        /\ \A i \in DOMAIN log : log[i].k \notin {"hook", "raise", "cpt"}
        /\ \A t \in d : \A p \in Frames :
              (stem[t] \in prev.cptExists /\ Invoked(log, t, p))
                  => p > CptOf(prev.cptText, stem[t])
        /\ disk = <<prev.dataExists, prev.data, prev.cptExists, prev.cptText>>

\* C16 (no duplicated output): over runs that register their recipes afresh
\* and may abort because a hook raises after it appended its row, the data
\* file of a recipe holds at most one row for any frame.
NoDuplicateRows ==
    \A t \in Tasks :
        \A i \in DOMAIN data[stem[t]], j \in DOMAIN data[stem[t]] :
            i # j => data[stem[t]][i] # data[stem[t]][j]

\* C17 (no eviction mid-pass): no step of the frame loop or of the post
\* processing loop changes the set of recipes on the menu or the bf of any
\* recipe; the menu changes only before the loop (menu.add, menu.remove,
\* check_cases) and when a new process starts with an empty menu.
LoopStepKeepsMenu ==
    pc \in {"scan", "commit", "post"} => (d' = d /\ bf' = bf)

NoEvictionMidPass == [][LoopStepKeepsMenu]_vars

\* a pass is done whose check_cases removed a recipe and whose loops ran
\* over the recipes left
NoEvictionWitness ==
    /\ pc = "done"
    /\ d # d0
    /\ Len(Visited) >= 1
    /\ \A t \in d : Count(log, Ev("post", t, None)) = 1

\* C18 (lockstep): in a pass at frame p, a recipe that is on and with which
\* the loops have finished at p has a .cpt file holding p; a recipe that is
\* on and not yet finished at p has a .cpt file holding p - 1, or no .cpt
\* file when p is frame 0 and its bf was unset.  When all recipes are
\* finished at p every recipe that is on holds p, and after an abort the
\* .cpt files of two recipes that were on differ by at most 1.
HasCpt(t) == stem[t] \in cptExists

StoredCpt(t) == CptOf(cptText, stem[t])

Lockstep ==
    (InPass /\ Visited # <<>>) =>
        /\ \A t \in d :
              on[t] =>
                 IF Passed(t, pos)
                 THEN HasCpt(t) /\ StoredCpt(t) = pos
                 ELSE IF bf[t] = None /\ pos = 0
                      THEN ~ HasCpt(t)
                      ELSE HasCpt(t) /\ StoredCpt(t) = pos - 1
        /\ pc \in {"post", "done"} =>
              \A t \in d : on[t] => (HasCpt(t) /\ StoredCpt(t) = pos)
        /\ pc = "aborted" =>
              \A t \in d, u \in d :
                 (on[t] /\ on[u] /\ HasCpt(t) /\ HasCpt(u))
                    => /\ StoredCpt(t) - StoredCpt(u) <= 1
                       /\ StoredCpt(u) - StoredCpt(t) <= 1

\* a pass aborted at a frame that one recipe had committed and another,
\* resumed or past its first frame, had not
LockstepWitness ==
    /\ pc = "aborted"
    /\ \E t \in d, u \in d :
          /\ on[t] /\ on[u] /\ HasCpt(t) /\ HasCpt(u)
          /\ StoredCpt(t) = pos
          /\ StoredCpt(u) = pos - 1

\* C19 (checkpoint monotonicity): over runs that register their recipes
\* afresh, no step removes a .cpt file or lowers the number it holds, and
\* a cpt_out on a .cpt file that exists (every commit of a recipe after its
\* first, and the first commit of a resumed recipe) stores the number it
\* held plus 1.
CptStepMonotone ==
    /\ \A s \in Stems :
          s \in cptExists =>
             /\ s \in cptExists'
             /\ CptOf(cptText', s) >= CptOf(cptText, s)
    /\ (pc = "commit" /\ stem[cur] \in cptExists) =>
          CptOf(cptText', stem[cur]) = CptOf(cptText, stem[cur]) + 1

CheckpointMonotone == [][CptStepMonotone]_vars

\* a second run is done in which a resumed recipe raised its checkpoint
CheckpointMonotoneWitness ==
    /\ pc = "done"
    /\ \E t \in d :
          /\ stem[t] \in prev.cptExists
          /\ Count(log, Ev("cpt", t, pos)) = 1
          /\ StoredCpt(t) > CptOf(prev.cptText, stem[t])

====
